---- MODULE Spec2Model ----
(***************************************************************************)
(* The tri-state Maybe container of package maybe (Some / None / Failure), *)
(* its panic guard Do, the (value, error) bridges ToMaybe and Try, and the *)
(* type-changing helpers Map and FlatMap.                                  *)
(*                                                                         *)
(* The library is a set of pure operations; the state machine is a caller  *)
(* that holds one container m and applies one operation per step.  Every   *)
(* step records the operation, its receiver, the callback behaviour that   *)
(* was supplied, the calls the operation made to that callback, what it    *)
(* returned, and the panic (if any) that escaped to the caller.            *)
(***************************************************************************)
EXTENDS Integers, Sequences, FiniteSets, TLC

\* ------------------------------------------------------------------ bounds
MaxVal == 2      \* carried values are 0..MaxVal (T = int)
MaxErr == 2      \* error values the caller owns are numbered 1..MaxErr
MaxAlloc == 1    \* errors allocated by the guard (errors.New) per behaviour
MaxStart == 10   \* a pipeline starts from Just(v), v in 0..MaxStart
MaxChain == 3    \* operations in a pipeline

Values == 0..MaxVal
zero == 0        \* var zero T

\* ------------------------------------------------------------------ errors
\* A Go error is a reference: id is its identity, msg its Error() text.
NilErr == [id |-> 0, msg |-> "<nil>"]
ErrText(i) == IF i = 1 THEN "e1" ELSE IF i = 2 THEN "e2" ELSE "e3"
CallerErr(i) == [id |-> i, msg |-> ErrText(i)]
CallerErrs == {CallerErr(i) : i \in 1..MaxErr}
ErrArgs == CallerErrs \cup {NilErr}

\* ----------------------------------------------------------- panic payloads
NoPanic == [t |-> "none"]
NilPayload == [t |-> "nil"]
NilDeref == [t |-> "runtime", s |-> "invalid memory address or nil pointer dereference"]
PanicStrings == {"boom"}
PanicInts == {123}
Payloads == {[t |-> "error", e |-> e] : e \in CallerErrs}
            \cup {[t |-> "string", s |-> s] : s \in PanicStrings}
            \cup {[t |-> "int", n |-> n] : n \in PanicInts}
            \cup {NilPayload}
Panics == {[k |-> "panic", p |-> p] : p \in Payloads}

\* ---------------------------------------------------------------- variables
VARIABLES
  m,         \* the container the caller holds (the receiver of the next call)
  op,        \* name of the operation applied last
  recv,      \* the container that operation was applied to
  arg,       \* the argument (callback behaviour, default value) supplied
  calls,     \* the calls the operation made to the supplied callbacks
  out,       \* what the operation returned to the caller
  esc,       \* the panic that propagated to the caller, or NoPanic
  nalloc,    \* number of error values created by the guard so far
  panicnil,  \* build setting: TRUE when recover() yields nil for panic(nil)
  chain,     \* a pipeline's start value and the callbacks applied since
  self       \* the receiver as the caller holds it after the call

vars == <<m, op, recv, arg, calls, out, esc, nalloc, panicnil, chain, self>>

\* ------------------------------------------------------------- constructors
Just(v) == [v |-> v, tag |-> "Some"]
Empty == [tag |-> "None"]
Failed(e) == [e |-> e, tag |-> "Failure"]
Fail(e) == [e |-> e, tag |-> "Failure"]     \* the constructor's earlier name
NilMaybe == [tag |-> "nil"]      \* the nil interface value of type Maybe[T]

IsSome(c) == c.tag = "Some"
IsNone(c) == c.tag = "None"
IsFailure(c) == c.tag = "Failure"

\* ------------------------------------------------------------- fmt.Sprint
Digit(d) == CASE d = 0 -> "0" [] d = 1 -> "1" [] d = 2 -> "2" [] d = 3 -> "3"
              [] d = 4 -> "4" [] d = 5 -> "5" [] d = 6 -> "6" [] d = 7 -> "7"
              [] d = 8 -> "8" [] d = 9 -> "9"
RECURSIVE Itoa(_)
Itoa(n) == IF n < 10 THEN Digit(n) ELSE Itoa(n \div 10) \o Digit(n % 10)
\* mutant: the payload's type is printed instead of the payload (%T for %v)
SprintType(p) == p.t
Sprint(p) == IF p.t = "int" THEN Itoa(p.n) ELSE p.s

\* errors.New: a new error value, distinct from every existing one
FreshId == MaxErr + nalloc + 1
ErrorsNew(text) == [id |-> FreshId, msg |-> text]
PanicNilError == [id |-> FreshId, msg |-> "panic called with nil argument"]

\* ---------------------------------------------------------- results of calls
Ret(v) == [k |-> "ret", v |-> v]
Panic(p) == [k |-> "panic", p |-> p]
\* what an operation hands back: a container, a plain value, the Get triple,
\* or nothing at all when a panic unwinds through it
OutMaybe(c) == [c |-> c, kind |-> "maybe"]
OutValue(v) == [v |-> v, kind |-> "value"]
OutTriple(v, ok, err) == [v |-> v, kind |-> "triple", ok |-> ok, err |-> err]
OutNothing == [kind |-> "nothing"]
Returned(o, cs) == [calls |-> cs, out |-> o, esc |-> NoPanic]
Escaped(cs, p) == [calls |-> cs, out |-> OutNothing, esc |-> p]
\* one invocation of a supplied callback, with the argument it received
CallVal(name, v) == [v |-> v, fn |-> name]
CallErr(name, e) == [e |-> e, fn |-> name]
CallNoArg(name) == [fn |-> name]

\* --------------------------------------------------------------- the guard
\* what recover() returns in the deferred function
Recover(p) == IF p = NilPayload
              THEN (IF panicnil THEN NilPayload
                    ELSE [t |-> "error", e |-> PanicNilError])
              ELSE p

\* a guard that forgets what the panic said
DoDropsPayload(run) ==
  IF run.k = "ret" THEN run.v ELSE Failed(ErrorsNew("panic"))

\* Do(fn): run is the outcome of fn(), Ret(container) or Panic(payload)
Do(run) ==
  IF run.k = "ret" THEN run.v
  ELSE LET r == Recover(run.p) IN
       IF r # NilPayload
       THEN (IF r.t = "error" THEN Failed(r.e)
             ELSE Failed(ErrorsNew(Sprint(r))))
       ELSE NilMaybe             \* the named result keeps its zero value

\* mutant: a zero value without an error is taken for no value
ToMaybeZeroIsEmpty(v, err) ==
  IF err # NilErr THEN Failed(err) ELSE IF v = zero THEN Empty ELSE Just(v)
\* mutant: the error of the pair is ignored
ToMaybeIgnoresErr(v, err) == Just(v)
ToMaybe(v, err) == IF err # NilErr THEN Failed(err) ELSE Just(v)

\* mutant: the function's error is not looked at
TryKeepsValue(run) ==
  Do(IF run.k = "ret" THEN Ret(Just(run.v[1])) ELSE run)

\* Try(fn): run is the outcome of fn(), Ret(<<v, err>>) or Panic(payload)
Try(run) ==
  Do(IF run.k = "ret" THEN Ret(ToMaybe(run.v[1], run.v[2])) ELSE run)

\* ------------------------------------------------- caller-supplied callbacks
\* A callback is described by what it does when invoked: it returns a result
\* computed from its argument, or it panics with a payload.
Inc(x) == (x + 1) % (MaxVal + 1)
MapFns == {[k |-> "inc"], [k |-> "id"]} \cup Panics                 \* func(T) T
RunMapFn(fn, x) == CASE fn.k = "inc" -> Ret(Inc(x))
                     [] fn.k = "id" -> Ret(x)
                     [] fn.k = "double" -> Ret(x * 2)
                     [] fn.k = "add5" -> Ret(x + 5)
                     [] fn.k = "panic" -> Panic(fn.p)

RetContainers == {Just(v) : v \in Values} \cup {Empty, NilMaybe}
                 \cup {Failed(e) : e \in CallerErrs}
FlatMapFns == {[k |-> "justinc"]} \cup {[k |-> "const", c |-> c] : c \in RetContainers}
              \cup Panics                                           \* func(T) Maybe[T]
RunFlatMapFn(fn, x) == CASE fn.k = "justinc" -> Ret(Just(Inc(x)))
                         [] fn.k = "const" -> Ret(fn.c)
                         [] fn.k = "panic" -> Panic(fn.p)

PredFns == {[k |-> "true"], [k |-> "false"], [k |-> "nonzero"]} \cup Panics  \* func(T) bool
RunPredFn(fn, x) == CASE fn.k = "true" -> Ret(TRUE)
                      [] fn.k = "false" -> Ret(FALSE)
                      [] fn.k = "nonzero" -> Ret(x # 0)
                      [] fn.k = "gt15" -> Ret(x > 15)
                      [] fn.k = "panic" -> Panic(fn.p)

VoidFns == {[k |-> "return"]} \cup Panics                  \* func(T), func(), func(error)
RunVoidFn(fn) == IF fn.k = "panic" THEN Panic(fn.p) ELSE Ret(TRUE)

PairFns == {[k |-> "pair", v |-> v, err |-> e] : v \in Values, e \in ErrArgs}
           \cup Panics                                              \* func() (T, error)
RunPairFn(fn) == IF fn.k = "panic" THEN Panic(fn.p) ELSE Ret(<<fn.v, fn.err>>)

RecoverFns == PairFns \cup {[k |-> "same"]}                 \* func(error) (T, error)
RunRecoverFn(fn, e) == CASE fn.k = "panic" -> Panic(fn.p)
                         [] fn.k = "same" -> Ret(<<zero, e>>)
                         [] fn.k = "pair" -> Ret(<<fn.v, fn.err>>)

GetFns == {[k |-> "value", v |-> v] : v \in Values} \cup {[k |-> "iferr"]}
          \cup Panics                                               \* func(error) T
RunGetFn(fn, e) == CASE fn.k = "panic" -> Panic(fn.p)
                     [] fn.k = "value" -> Ret(fn.v)
                     [] fn.k = "iferr" -> Ret(IF e = NilErr THEN 0 ELSE 1)

ErrFns == {[k |-> "err", err |-> e] : e \in ErrArgs} \cup Panics     \* func() error
RunErrFn(fn) == IF fn.k = "panic" THEN Panic(fn.p) ELSE Ret(fn.err)

\* the body func() Maybe[T] { return Just(f(...)) } of a guarded closure
Wrap(run) == IF run.k = "ret" THEN Ret(Just(run.v)) ELSE run
\* the body func() Maybe[T] { f(...); return c }
AndThen(run, c) == IF run.k = "ret" THEN Ret(c) ELSE run

\* ---------------------------------------------------------------- Some[T]
\* mutant: the callback runs but its result is dropped
SomeMapKeeps(s, fn) ==
  Returned(OutMaybe(Do(AndThen(RunMapFn(fn, s.v), s))), <<CallVal("fn", s.v)>>)

SomeMap(s, fn) ==
  Returned(OutMaybe(Do(Wrap(RunMapFn(fn, s.v)))), <<CallVal("fn", s.v)>>)

SomeMapIfEmpty(s, fn) == Returned(OutMaybe(s), <<>>)

\* mutant: the recovery function runs although nothing failed
SomeMapIfFailedRetries(s, fn) ==
  Returned(OutMaybe(Try(RunRecoverFn(fn, NilErr))), <<CallErr("fn", NilErr)>>)
SomeMapIfFailed(s, fn) == Returned(OutMaybe(s), <<>>)

\* mutant: an empty result of the callback is replaced by the receiver
SomeFlatMapKeeps(s, fn) ==
  LET c == Do(RunFlatMapFn(fn, s.v)) IN
  Returned(OutMaybe(IF c = Empty THEN s ELSE c), <<CallVal("fn", s.v)>>)

SomeFlatMap(s, fn) ==
  Returned(OutMaybe(Do(RunFlatMapFn(fn, s.v))), <<CallVal("fn", s.v)>>)

\* mutant: the test is inverted
SomeFilterInverted(s, fn) ==
  LET run == RunPredFn(fn, s.v) IN
  Returned(OutMaybe(Do(IF run.k = "ret"
                       THEN Ret(IF run.v THEN Empty ELSE s)
                       ELSE run)),
           <<CallVal("fn", s.v)>>)

SomeFilter(s, fn) ==
  LET run == RunPredFn(fn, s.v) IN
  Returned(OutMaybe(Do(IF run.k = "ret"
                       THEN Ret(IF run.v THEN s ELSE Empty)
                       ELSE run)),
           <<CallVal("fn", s.v)>>)

\* mutant: Then hands on an empty container
SomeThenDrops(s, fn) ==
  Returned(OutMaybe(Do(AndThen(RunVoidFn(fn), Empty))), <<CallVal("fn", s.v)>>)

SomeThen(s, fn) ==
  Returned(OutMaybe(Do(AndThen(RunVoidFn(fn), s))), <<CallVal("fn", s.v)>>)

\* mutant: a present value is reported together with an error
SomeGetWithError(s) == Returned(OutTriple(s.v, TRUE, CallerErr(1)), <<>>)
\* mutant: the presence flag is lost
SomeGetNotOk(s) == Returned(OutTriple(s.v, FALSE, NilErr), <<>>)
SomeGet(s) == Returned(OutTriple(s.v, TRUE, NilErr), <<>>)

\* mutant: the callback is consulted although a value is present
SomeOrElseGetCalls(s, fn) ==
  LET run == RunGetFn(fn, NilErr) IN
  IF run.k = "ret" THEN Returned(OutValue(s.v), <<CallErr("fn", NilErr)>>)
  ELSE Escaped(<<CallErr("fn", NilErr)>>, run.p)

SomeOrElseGet(s, fn) == Returned(OutValue(s.v), <<>>)

SomeOrElseDefault(s, v) == Returned(OutValue(s.v), <<>>)

\* a present value is not empty: the container is returned as it is
SomeFailIfEmpty(s, fn) == Returned(OutMaybe(s), <<>>)

\* mutant: the wrong branch runs
SomeMatchThenWrongBranch(s, someFn, noneFn, failureFn) ==
  Returned(OutMaybe(Do(AndThen(RunVoidFn(noneFn), s))), <<CallNoArg("noneFn")>>)

\* the eager form FailIfEmpty(err error)
SomeFailIfEmptyEager(s, err) == Returned(OutMaybe(s), <<>>)

SomeMatchThen(s, someFn, noneFn, failureFn) ==
  Returned(OutMaybe(Do(AndThen(RunVoidFn(someFn), s))), <<CallVal("someFn", s.v)>>)

\* ---------------------------------------------------------------- None[T]
\* mutant: Map on an empty container makes up a value
NoneMapMakesValue(n, fn) == Returned(OutMaybe(Just(zero)), <<>>)
NoneMap(n, fn) == Returned(OutMaybe(n), <<>>)

\* runs the fallback under the guard and converts its (value, error) pair
NoneMapIfEmpty(n, fn) ==
  Returned(OutMaybe(Try(RunPairFn(fn))), <<CallNoArg("fn")>>)

NoneMapIfFailed(n, fn) == Returned(OutMaybe(n), <<>>)

NoneFlatMap(n, fn) == Returned(OutMaybe(n), <<>>)

\* mutant: Filter tests the zero value on an empty container
NoneFilterRuns(n, fn) ==
  LET run == RunPredFn(fn, zero) IN
  Returned(OutMaybe(Do(IF run.k = "ret" THEN Ret(n) ELSE run)), <<CallVal("fn", zero)>>)
NoneFilter(n, fn) == Returned(OutMaybe(n), <<>>)

NoneThen(n, fn) == Returned(OutMaybe(n), <<>>)

NoneGet(n) == Returned(OutTriple(zero, FALSE, NilErr), <<>>)

\* mutant: the callback runs under a recover that yields the zero value
NoneOrElseGetGuarded(n, fn) ==
  LET run == RunGetFn(fn, NilErr) IN
  Returned(OutValue(IF run.k = "ret" THEN run.v ELSE zero), <<CallErr("fn", NilErr)>>)

\* return fn(nil): the callback runs in the caller's frame, outside any guard
NoneOrElseGet(n, fn) ==
  LET run == RunGetFn(fn, NilErr) IN
  IF run.k = "ret" THEN Returned(OutValue(run.v), <<CallErr("fn", NilErr)>>)
  ELSE Escaped(<<CallErr("fn", NilErr)>>, run.p)

NoneOrElseDefault(n, v) == Returned(OutValue(v), <<>>)

\* Do(func() Maybe[T] { return Failed[T](fn()) })
NoneFailIfEmpty(n, fn) ==
  LET run == RunErrFn(fn) IN
  Returned(OutMaybe(Do(IF run.k = "ret" THEN Ret(Failed(run.v)) ELSE run)),
           <<CallNoArg("fn")>>)

\* the eager form: return Fail[T](err)
\* mutant: a nil error is taken for 'nothing to report'
NoneFailIfEmptyEagerSkipsNil(n, err) ==
  Returned(OutMaybe(IF err = NilErr THEN n ELSE Fail(err)), <<>>)
NoneFailIfEmptyEager(n, err) == Returned(OutMaybe(Fail(err)), <<>>)

NoneMatchThen(n, someFn, noneFn, failureFn) ==
  Returned(OutMaybe(Do(AndThen(RunVoidFn(noneFn), n))), <<CallNoArg("noneFn")>>)

\* ------------------------------------------------------------- Failure[T]
\* mutant: the method drops the failure where the helper keeps it
FailureMapAsNone(f, fn) == Returned(OutMaybe(Empty), <<>>)
FailureMap(f, fn) == Returned(OutMaybe(f), <<>>)

\* mutant: the fallback also runs after a failure
FailureMapIfEmptyFallsBack(f, fn) ==
  Returned(OutMaybe(Try(RunPairFn(fn))), <<CallNoArg("fn")>>)
FailureMapIfEmpty(f, fn) == Returned(OutMaybe(f), <<>>)

\* mutant: the recovery function runs outside Try's conversion of its pair
FailureMapIfFailedKeepsValue(f, fn) ==
  LET run == RunRecoverFn(fn, f.e) IN
  Returned(OutMaybe(Do(IF run.k = "ret" THEN Ret(Just(run.v[1])) ELSE run)),
           <<CallErr("fn", f.e)>>)

\* Try(func() (T, error) { return fn(f.e) })
FailureMapIfFailed(f, fn) ==
  Returned(OutMaybe(Try(RunRecoverFn(fn, f.e))), <<CallErr("fn", f.e)>>)

\* mutant: a failure is dropped and the chain goes on as Absent
FailureFlatMapAsNone(f, fn) == Returned(OutMaybe(Empty), <<>>)
FailureFlatMap(f, fn) == Returned(OutMaybe(f), <<>>)

FailureFilter(f, fn) == Returned(OutMaybe(f), <<>>)

\* mutant: Then runs the callback on a failed container, as Some.Then does
FailureThenRuns(f, fn) ==
  Returned(OutMaybe(Do(AndThen(RunVoidFn(fn), f))), <<CallVal("fn", zero)>>)
FailureThen(f, fn) == Returned(OutMaybe(f), <<>>)

FailureGet(f) == Returned(OutTriple(zero, FALSE, f.e), <<>>)

\* mutant: the callback is given nil instead of the held error
FailureOrElseGetNil(f, fn) ==
  LET run == RunGetFn(fn, NilErr) IN
  IF run.k = "ret" THEN Returned(OutValue(run.v), <<CallErr("fn", NilErr)>>)
  ELSE Escaped(<<CallErr("fn", NilErr)>>, run.p)

\* return fn(f.e): the callback runs in the caller's frame, outside any guard
FailureOrElseGet(f, fn) ==
  LET run == RunGetFn(fn, f.e) IN
  IF run.k = "ret" THEN Returned(OutValue(run.v), <<CallErr("fn", f.e)>>)
  ELSE Escaped(<<CallErr("fn", f.e)>>, run.p)

\* mutant: the default is ignored
FailureOrElseDefaultZero(f, v) == Returned(OutValue(zero), <<>>)
FailureOrElseDefault(f, v) == Returned(OutValue(v), <<>>)

FailureFailIfEmpty(f, fn) == Returned(OutMaybe(f), <<>>)

\* the eager form: a failure is not empty and is returned as it is
FailureFailIfEmptyEager(f, err) == Returned(OutMaybe(f), <<>>)

FailureMatchThen(f, someFn, noneFn, failureFn) ==
  Returned(OutMaybe(Do(AndThen(RunVoidFn(failureFn), f))),
           <<CallErr("failureFn", f.e)>>)

\* ----------------------------------------------- the Maybe[T] interface
\* A method call on an interface value runs the method of the dynamic type;
\* on the nil interface value it panics in the caller's frame.
NilCall == Escaped(<<>>, NilDeref)

MaybeMap(c, fn) ==
  CASE c.tag = "Some" -> SomeMap(c, fn) [] c.tag = "None" -> NoneMap(c, fn)
    [] c.tag = "Failure" -> FailureMap(c, fn) [] c.tag = "nil" -> NilCall

MaybeMapIfEmpty(c, fn) ==
  CASE c.tag = "Some" -> SomeMapIfEmpty(c, fn) [] c.tag = "None" -> NoneMapIfEmpty(c, fn)
    [] c.tag = "Failure" -> FailureMapIfEmpty(c, fn) [] c.tag = "nil" -> NilCall

MaybeMapIfFailed(c, fn) ==
  CASE c.tag = "Some" -> SomeMapIfFailed(c, fn) [] c.tag = "None" -> NoneMapIfFailed(c, fn)
    [] c.tag = "Failure" -> FailureMapIfFailed(c, fn) [] c.tag = "nil" -> NilCall

MaybeFlatMap(c, fn) ==
  CASE c.tag = "Some" -> SomeFlatMap(c, fn) [] c.tag = "None" -> NoneFlatMap(c, fn)
    [] c.tag = "Failure" -> FailureFlatMap(c, fn) [] c.tag = "nil" -> NilCall

MaybeFilter(c, fn) ==
  CASE c.tag = "Some" -> SomeFilter(c, fn) [] c.tag = "None" -> NoneFilter(c, fn)
    [] c.tag = "Failure" -> FailureFilter(c, fn) [] c.tag = "nil" -> NilCall

MaybeThen(c, fn) ==
  CASE c.tag = "Some" -> SomeThen(c, fn) [] c.tag = "None" -> NoneThen(c, fn)
    [] c.tag = "Failure" -> FailureThen(c, fn) [] c.tag = "nil" -> NilCall

MaybeGet(c) ==
  CASE c.tag = "Some" -> SomeGet(c) [] c.tag = "None" -> NoneGet(c)
    [] c.tag = "Failure" -> FailureGet(c) [] c.tag = "nil" -> NilCall

MaybeOrElseGet(c, fn) ==
  CASE c.tag = "Some" -> SomeOrElseGet(c, fn) [] c.tag = "None" -> NoneOrElseGet(c, fn)
    [] c.tag = "Failure" -> FailureOrElseGet(c, fn) [] c.tag = "nil" -> NilCall

MaybeOrElseDefault(c, v) ==
  CASE c.tag = "Some" -> SomeOrElseDefault(c, v) [] c.tag = "None" -> NoneOrElseDefault(c, v)
    [] c.tag = "Failure" -> FailureOrElseDefault(c, v) [] c.tag = "nil" -> NilCall

MaybeFailIfEmpty(c, fn) ==
  CASE c.tag = "Some" -> SomeFailIfEmpty(c, fn) [] c.tag = "None" -> NoneFailIfEmpty(c, fn)
    [] c.tag = "Failure" -> FailureFailIfEmpty(c, fn) [] c.tag = "nil" -> NilCall

MaybeFailIfEmptyEager(c, err) ==
  CASE c.tag = "Some" -> SomeFailIfEmptyEager(c, err)
    [] c.tag = "None" -> NoneFailIfEmptyEager(c, err)
    [] c.tag = "Failure" -> FailureFailIfEmptyEager(c, err) [] c.tag = "nil" -> NilCall

\* customMaybe of the tests: a fourth implementation of the interface, whose
\* MatchThen calls none of the three functions and returns Empty
Custom == [tag |-> "custom"]
CustomMatchThen(c, someFn, noneFn, failureFn) == Returned(OutMaybe(Empty), <<>>)

MaybeMatchThen(c, someFn, noneFn, failureFn) ==
  CASE c.tag = "Some" -> SomeMatchThen(c, someFn, noneFn, failureFn)
    [] c.tag = "None" -> NoneMatchThen(c, someFn, noneFn, failureFn)
    [] c.tag = "Failure" -> FailureMatchThen(c, someFn, noneFn, failureFn)
    [] c.tag = "custom" -> CustomMatchThen(c, someFn, noneFn, failureFn)
    [] c.tag = "nil" -> NilCall

\* ------------------------------------------ type-changing helpers Map, FlatMap
\* Both hand three closures to c.MatchThen; the closure that MatchThen invokes
\* assigns the named result output, which is nil until then.  The closures
\* themselves return normally: the transformation runs inside its own Do.
Quiet == [k |-> "return"]

\* mutant: the failure branch forgets the error and yields an empty container
MapDropsFailure(c, fn) ==
  LET r == MaybeMatchThen(c, Quiet, Quiet, Quiet) IN
  IF r.esc # NoPanic THEN r
  ELSE IF r.calls = <<>> THEN Returned(OutMaybe(NilMaybe), <<>>)
  ELSE LET call == r.calls[1] IN
       CASE call.fn = "someFn" ->
              Returned(OutMaybe(Do(Wrap(RunMapFn(fn, call.v)))), <<CallVal("fn", call.v)>>)
         [] call.fn = "noneFn" -> Returned(OutMaybe(Empty), <<>>)
         [] call.fn = "failureFn" -> Returned(OutMaybe(Empty), <<>>)

Map(c, fn) ==
  LET r == MaybeMatchThen(c, Quiet, Quiet, Quiet) IN
  IF r.esc # NoPanic THEN r
  ELSE IF r.calls = <<>> THEN Returned(OutMaybe(NilMaybe), <<>>)
  ELSE LET call == r.calls[1] IN
       CASE call.fn = "someFn" ->
              Returned(OutMaybe(Do(Wrap(RunMapFn(fn, call.v)))), <<CallVal("fn", call.v)>>)
         [] call.fn = "noneFn" -> Returned(OutMaybe(Empty), <<>>)
         [] call.fn = "failureFn" -> Returned(OutMaybe(Failed(call.e)), <<>>)

\* mutant: the present branch calls fn without a guard of its own; MatchThen's
\* guard absorbs the panic and output is never assigned
FlatMapUnguarded(c, fn) ==
  LET r == MaybeMatchThen(c, Quiet, Quiet, Quiet) IN
  IF r.esc # NoPanic THEN r
  ELSE IF r.calls = <<>> THEN Returned(OutMaybe(NilMaybe), <<>>)
  ELSE LET call == r.calls[1] IN
       CASE call.fn = "someFn" ->
              LET run == RunFlatMapFn(fn, call.v) IN
              Returned(OutMaybe(IF run.k = "ret" THEN run.v ELSE NilMaybe),
                       <<CallVal("fn", call.v)>>)
         [] call.fn = "noneFn" -> Returned(OutMaybe(Empty), <<>>)
         [] call.fn = "failureFn" -> Returned(OutMaybe(Failed(call.e)), <<>>)

FlatMap(c, fn) ==
  LET r == MaybeMatchThen(c, Quiet, Quiet, Quiet) IN
  IF r.esc # NoPanic THEN r
  ELSE IF r.calls = <<>> THEN Returned(OutMaybe(NilMaybe), <<>>)
  ELSE LET call == r.calls[1] IN
       CASE call.fn = "someFn" ->
              Returned(OutMaybe(Do(RunFlatMapFn(fn, call.v))), <<CallVal("fn", call.v)>>)
         [] call.fn = "noneFn" -> Returned(OutMaybe(Empty), <<>>)
         [] call.fn = "failureFn" -> Returned(OutMaybe(Failed(call.e)), <<>>)

\* ------------------------------------------------------------ the caller
NoReceiver == [tag |-> "-"]      \* free functions have no receiver
NoArg == [k |-> "-"]
DoFns == {[k |-> "const", c |-> c] : c \in RetContainers} \cup Panics   \* func() Maybe[T]
RunDoFn(fn) == IF fn.k = "panic" THEN Panic(fn.p) ELSE Ret(fn.c)

\* the guard created an error value for this result
Allocated(r) ==
  /\ r.out.kind = "maybe"
  /\ r.out.c.tag = "Failure"
  /\ r.out.c.e.id = FreshId

\* Some[T], None[T] and Failure[T] are structs with unexported fields and every
\* method has a value receiver: the method works on a copy and no method body
\* assigns a field, so the caller's container is after the call what it was.
\* mutant: a pointer receiver that is updated in place with the result
AfterCallInPlace(c, r) == IF r.out.kind = "maybe" THEN r.out.c ELSE c
AfterCall(c, r) == c

\* one call by the caller: r is what the operation did; a returned container
\* becomes the receiver of the next call of the chain
Call(name, receiver, a, r) ==
  /\ nalloc + (IF Allocated(r) THEN 1 ELSE 0) <= MaxAlloc
  /\ op' = name
  /\ recv' = receiver
  /\ arg' = a
  /\ calls' = r.calls
  /\ out' = r.out
  /\ esc' = r.esc
  /\ m' = IF r.out.kind = "maybe" THEN r.out.c ELSE m
  /\ nalloc' = nalloc + (IF Allocated(r) THEN 1 ELSE 0)
  /\ self' = AfterCall(receiver, r)
  /\ UNCHANGED panicnil

Apply(name, receiver, a, r) == Call(name, receiver, a, r) /\ UNCHANGED chain

Init ==
  /\ m \in {Just(v) : v \in Values} \cup {Empty} \cup {Failed(e) : e \in ErrArgs}
  /\ op = "new"
  /\ recv = NoReceiver
  /\ arg = NoArg
  /\ calls = <<>>
  /\ out = OutMaybe(m)
  /\ esc = NoPanic
  /\ nalloc = 0
  /\ panicnil \in BOOLEAN
  /\ chain = <<>>
  /\ self = NoReceiver

StepJust == \E v \in Values :
  Apply("Just", NoReceiver, [k |-> "value", v |-> v], Returned(OutMaybe(Just(v)), <<>>))

StepEmpty == Apply("Empty", NoReceiver, NoArg, Returned(OutMaybe(Empty), <<>>))

StepFailed == \E e \in ErrArgs :
  Apply("Failed", NoReceiver, [k |-> "err", err |-> e], Returned(OutMaybe(Failed(e)), <<>>))

StepToMaybe == \E v \in Values, e \in ErrArgs :
  Apply("ToMaybe", NoReceiver, [k |-> "pair", v |-> v, err |-> e],
        Returned(OutMaybe(ToMaybe(v, e)), <<>>))

StepTry == \E fn \in PairFns :
  Apply("Try", NoReceiver, fn, Returned(OutMaybe(Try(RunPairFn(fn))), <<CallNoArg("fn")>>))

StepDo == \E fn \in DoFns :
  Apply("Do", NoReceiver, fn, Returned(OutMaybe(Do(RunDoFn(fn))), <<CallNoArg("fn")>>))

StepMap == \E fn \in MapFns : Apply("Map", m, fn, MaybeMap(m, fn))

StepFlatMap == \E fn \in FlatMapFns : Apply("FlatMap", m, fn, MaybeFlatMap(m, fn))

StepFilter == \E fn \in PredFns : Apply("Filter", m, fn, MaybeFilter(m, fn))

StepThen == \E fn \in VoidFns : Apply("Then", m, fn, MaybeThen(m, fn))

StepMapIfEmpty == \E fn \in PairFns : Apply("MapIfEmpty", m, fn, MaybeMapIfEmpty(m, fn))

StepMapIfFailed == \E fn \in RecoverFns : Apply("MapIfFailed", m, fn, MaybeMapIfFailed(m, fn))

StepFailIfEmpty == \E fn \in ErrFns : Apply("FailIfEmpty", m, fn, MaybeFailIfEmpty(m, fn))

StepFailIfEmptyEager == \E e \in ErrArgs :
  Apply("FailIfEmptyErr", m, [k |-> "err", err |-> e], MaybeFailIfEmptyEager(m, e))

\* one of the three callbacks is arbitrary, the other two behave alike
MatchArgs ==
  {[k |-> "match",
    someFn |-> IF pos = 1 THEN f ELSE g,
    noneFn |-> IF pos = 2 THEN f ELSE g,
    failureFn |-> IF pos = 3 THEN f ELSE g] :
      pos \in 1..3, f \in VoidFns, g \in {Quiet, Panic([t |-> "string", s |-> "boom"])}}

StepMatchThen == \E a \in MatchArgs :
  Apply("MatchThen", m, a, MaybeMatchThen(m, a.someFn, a.noneFn, a.failureFn))

StepGet == Apply("Get", m, NoArg, MaybeGet(m))

StepOrElseGet == \E fn \in GetFns : Apply("OrElseGet", m, fn, MaybeOrElseGet(m, fn))

StepOrElseDefault == \E v \in Values :
  Apply("OrElseDefault", m, [k |-> "value", v |-> v], MaybeOrElseDefault(m, v))

\* the helpers take any implementation of the interface
StepHelperMap == \E fn \in MapFns, c \in {m, Custom} :
  Apply("maybe.Map", c, fn, Map(c, fn))

StepHelperFlatMap == \E fn \in FlatMapFns, c \in {m, Custom} :
  Apply("maybe.FlatMap", c, fn, FlatMap(c, fn))

Next ==
  \/ StepJust \/ StepEmpty \/ StepFailed \/ StepToMaybe \/ StepTry \/ StepDo
  \/ StepMap \/ StepFlatMap \/ StepFilter \/ StepThen
  \/ StepMapIfEmpty \/ StepMapIfFailed \/ StepFailIfEmpty \/ StepMatchThen
  \/ StepGet \/ StepOrElseGet \/ StepOrElseDefault
  \/ StepHelperMap \/ StepHelperFlatMap
  \/ StepFailIfEmptyEager

Spec == Init /\ [][Next]_vars

\* ------------------------------------------------- pipelines of the README
\* maybe.Just(v).Map(..).Filter(..).Map(..): the callbacks of the README's
\* chaining example, applied in any order to any start value
ChainMapFns == {[k |-> "double"], [k |-> "add5"]}     \* x * 2, x + 5
ChainPredFns == {[k |-> "gt15"]}                      \* x > 15

ChainInit ==
  /\ \E v \in 0..MaxStart : m = Just(v) /\ chain = <<[k |-> "value", v |-> v]>>
  /\ op = "Just"
  /\ recv = NoReceiver
  /\ arg = chain[1]
  /\ calls = <<>>
  /\ out = OutMaybe(m)
  /\ esc = NoPanic
  /\ nalloc = 0
  /\ panicnil \in BOOLEAN
  /\ self = NoReceiver

ChainMap == \E fn \in ChainMapFns :
  /\ Len(chain) <= MaxChain
  /\ Call("Map", m, fn, MaybeMap(m, fn))
  /\ chain' = Append(chain, fn)

ChainFilter == \E fn \in ChainPredFns :
  /\ Len(chain) <= MaxChain
  /\ Call("Filter", m, fn, MaybeFilter(m, fn))
  /\ chain' = Append(chain, fn)

ChainNext == ChainMap \/ ChainFilter

ChainSpec == ChainInit /\ [][ChainNext]_vars

TypeOK ==
  /\ m.tag \in {"Some", "None", "Failure", "nil"}
  /\ nalloc \in 0..MaxAlloc
  /\ panicnil \in BOOLEAN
  /\ Len(chain) <= MaxChain + 1
  /\ out.kind \in {"maybe", "value", "triple", "nothing"}
  /\ (esc = NoPanic) = (out.kind # "nothing")

\* =================================================================== claims
\* the callback the last operation invoked (defined when calls # <<>>)
InvokedFn == IF op = "MatchThen" THEN arg[calls[1].fn] ELSE arg
CallbackPanicked == calls # <<>> /\ InvokedFn.k = "panic"
GuardedOps == {"Map", "FlatMap", "Filter", "Then", "MatchThen", "MapIfEmpty",
               "MapIfFailed", "FailIfEmpty", "maybe.Map", "maybe.FlatMap", "Try", "Do"}

\* C1: when the callback invoked by a container-returning operation panics
\* with an error value or with a string, the operation returns a Failure that
\* holds that very error value, respectively an error whose text is the
\* string, and no panic reaches the caller.
C1_FaultAbsorption ==
  (op \in GuardedOps /\ CallbackPanicked /\ InvokedFn.p.t \in {"error", "string"}) =>
    /\ esc = NoPanic
    /\ out.kind = "maybe"
    /\ IsFailure(out.c)
    /\ (InvokedFn.p.t = "error" => out.c.e = InvokedFn.p.e)
    /\ (InvokedFn.p.t = "string" => out.c.e.msg = InvokedFn.p.s)

C1_Witness ==
  /\ op = "MatchThen" /\ IsFailure(recv) /\ CallbackPanicked
  /\ InvokedFn.p = [t |-> "string", s |-> "boom"]
  /\ out.kind = "maybe" /\ IsFailure(out.c) /\ out.c.e.msg = "boom"
  /\ out.c.e # recv.e

\* the chain operations of C2, which leave MapIfFailed out
C2_Ops == {"Map", "FlatMap", "Filter", "Then", "MapIfEmpty", "MatchThen"}

C3_Original ==
  (op = "OrElseGet" /\ recv.tag \in {"None", "Failure"}) => esc = NoPanic

\* C3 (amended): OrElseGet on an Absent or Failed container calls the callback
\* outside the guard: when the callback panics, the panic reaches the caller
\* of OrElseGet with its payload and nothing is returned; when it returns,
\* no panic reaches the caller.
C3_OrElseGetUnguarded ==
  (op = "OrElseGet" /\ recv.tag \in {"None", "Failure"}) =>
    /\ calls # <<>>
    /\ (arg.k = "panic" => esc = arg.p /\ out = OutNothing)
    /\ (arg.k # "panic" => esc = NoPanic /\ out.kind = "value")

C3_Witness ==
  /\ op = "OrElseGet" /\ IsNone(recv) /\ arg.k = "panic"
  /\ esc = [t |-> "string", s |-> "boom"] /\ out = OutNothing

\* operations applied to the container held (the constructors and the
\* bridges Try, Do, ToMaybe make a container of their own)
ReceiverOps == {"Map", "FlatMap", "Filter", "Then", "MapIfEmpty", "MapIfFailed",
                "FailIfEmpty", "FailIfEmptyErr", "MatchThen", "Get", "OrElseGet",
                "OrElseDefault",
                "maybe.Map", "maybe.FlatMap"}
C4_Ops == {"Map", "FlatMap", "Filter", "Then", "MapIfFailed", "MatchThen"}

\* C4 (as claimed): from an Absent container, any of Map, FlatMap, Filter,
\* Then, MapIfFailed and MatchThen, whatever the callbacks do, gives an Absent
\* container, and MapIfEmpty is the only operation on the container that
\* gives a Present or a Failed one.
C4_Original ==
  [][(IsNone(m) /\ op' \in ReceiverOps) =>
       /\ (op' \in C4_Ops => IsNone(m'))
       /\ (m'.tag \in {"Some", "Failure"} => op' = "MapIfEmpty")]_vars

\* C4 (amended): from an Absent container, any of Map, FlatMap, Filter, Then,
\* MapIfFailed, and any MatchThen whose onAbsent callback returns normally,
\* gives an Absent container; only MapIfEmpty gives a Present one, and only
\* MapIfEmpty, FailIfEmpty and a MatchThen whose onAbsent callback panics
\* give a Failed one.
C4_AbsencePersists ==
  [][(IsNone(m) /\ op' \in ReceiverOps) =>
       /\ ((op' \in C4_Ops /\ ~(op' = "MatchThen" /\ arg'.noneFn.k = "panic"))
             => IsNone(m') /\ out' = OutMaybe(m))
       /\ (IsSome(m') => op' = "MapIfEmpty")
       /\ (IsFailure(m') =>
             \/ op' \in {"MapIfEmpty", "FailIfEmpty", "FailIfEmptyErr"}
             \/ op' = "MatchThen" /\ arg'.noneFn.k = "panic")]_vars

C4_Witness ==
  /\ op = "MatchThen" /\ IsNone(recv) /\ arg.noneFn.k = "return"
  /\ arg.someFn.k = "panic" /\ IsNone(m) /\ calls = <<CallNoArg("noneFn")>>

\* C5: on a Failed(e) container, Map, FlatMap, Filter, Then and MapIfEmpty
\* return Failed with the identical error e and make no call to the function
\* supplied, also when that function would panic.
C5_FailedNoOps ==
  (op \in {"Map", "FlatMap", "Filter", "Then", "MapIfEmpty"} /\ IsFailure(recv)) =>
    /\ out = OutMaybe(Failed(recv.e))
    /\ calls = <<>>
    /\ esc = NoPanic

C5_Witness ==
  /\ op = "Then" /\ IsFailure(recv) /\ recv.e = CallerErr(2)
  /\ arg.k = "panic" /\ out = OutMaybe(Failed(CallerErr(2))) /\ calls = <<>>

\* C6: on an Absent container, Map, FlatMap, Filter, Then and MapIfFailed
\* return an Absent container and make no call to the function supplied, also
\* when that function would panic.
C6_AbsentNoOps ==
  (op \in {"Map", "FlatMap", "Filter", "Then", "MapIfFailed"} /\ IsNone(recv)) =>
    /\ out = OutMaybe(Empty)
    /\ calls = <<>>
    /\ esc = NoPanic

C6_Witness ==
  /\ op = "Filter" /\ IsNone(recv) /\ arg.k = "panic"
  /\ out = OutMaybe(Empty) /\ calls = <<>>

\* C7: Get returns (v, true, nil) on Present(v), (zero, false, nil) on Absent
\* and (zero, false, e) on Failed(e).
C7_Extraction ==
  (op = "Get" /\ recv.tag \in {"Some", "None", "Failure"}) =>
    /\ esc = NoPanic
    /\ (IsSome(recv) => out = [v |-> recv.v, kind |-> "triple", ok |-> TRUE, err |-> NilErr])
    /\ (IsNone(recv) => out = [v |-> 0, kind |-> "triple", ok |-> FALSE, err |-> NilErr])
    /\ (IsFailure(recv) => out = [v |-> 0, kind |-> "triple", ok |-> FALSE, err |-> recv.e])

C7_Witness ==
  /\ op = "Get" /\ IsSome(recv) /\ recv.v = 2
  /\ out = [v |-> 2, kind |-> "triple", ok |-> TRUE, err |-> NilErr]

\* C8 (as claimed): the callback of OrElseGet receives a nil error exactly
\* when the container is Absent; on a Failed container it receives a non-nil
\* error.
C8_Original ==
  (op = "OrElseGet" /\ calls # <<>>) => ((calls[1].e = NilErr) <=> IsNone(recv))

\* C8 (amended): the callback of OrElseGet receives nil on an Absent
\* container and the held error on a Failed one, so it receives nil exactly
\* when the container is Absent or is a Failed container that holds a nil
\* error.
C8_OrElseGetArgument ==
  (op = "OrElseGet" /\ calls # <<>>) =>
    /\ (IsNone(recv) => calls[1].e = NilErr)
    /\ (IsFailure(recv) => calls[1].e = recv.e)
    /\ ((calls[1].e = NilErr) <=> (IsNone(recv) \/ recv = Failed(NilErr)))

C8_Witness ==
  /\ op = "OrElseGet" /\ recv = Failed(NilErr)
  /\ calls = <<CallErr("fn", NilErr)>> /\ out.kind = "value"

\* C9: on Absent and on Failed(e), OrElseDefault(d) returns d, and
\* OrElseGet(f) calls f exactly once, with nil on Absent and with e on
\* Failed(e), and returns what f returns.
C9_Alternatives ==
  LET held == IF IsNone(recv) THEN NilErr ELSE recv.e IN
  (recv.tag \in {"None", "Failure"}) =>
    /\ (op = "OrElseDefault" =>
          out = [v |-> arg.v, kind |-> "value"] /\ calls = <<>> /\ esc = NoPanic)
    /\ (op = "OrElseGet" =>
          /\ calls = <<[e |-> held, fn |-> "fn"]>>
          /\ (arg.k = "value" => out = [v |-> arg.v, kind |-> "value"])
          /\ (arg.k = "iferr" =>
                out = [v |-> IF held = NilErr THEN 0 ELSE 1, kind |-> "value"]))

C9_Witness ==
  /\ op = "OrElseGet" /\ recv = Failed(CallerErr(1)) /\ arg.k = "iferr"
  /\ calls = <<CallErr("fn", CallerErr(1))>> /\ out = OutValue(1)

PredHolds(fn, x) ==
  CASE fn.k = "true" -> TRUE [] fn.k = "false" -> FALSE [] fn.k = "nonzero" -> x # 0

\* C12: for every value v and every predicate p that returns,
\* Present(v).Filter(p) calls p once with v and is Present(v) when p(v) is
\* true and Absent when p(v) is false; it is never Failed and never Present
\* of another value.
C12_FilterLaw ==
  (op = "Filter" /\ IsSome(recv) /\ arg.k # "panic") =>
    /\ calls = <<[v |-> recv.v, fn |-> "fn"]>>
    /\ esc = NoPanic
    /\ out.kind = "maybe"
    /\ (PredHolds(arg, recv.v) => out.c = [v |-> recv.v, tag |-> "Some"])
    /\ (~PredHolds(arg, recv.v) => out.c = [tag |-> "None"])

C12_Witness ==
  /\ op = "Filter" /\ recv = Just(0) /\ arg.k = "nonzero"
  /\ out = OutMaybe(Empty) /\ calls = <<CallVal("fn", 0)>>

\* C13: Present(v).FlatMap(f) calls f once with v and returns the very
\* container f returns, unwrapped: Present(w), Absent, or Failed(e) with the
\* same e; otherwise it is Failed only when f panics, then with the panic's
\* error value (error payload) or display form (string payload).
C13_FlatMapNoWrapping ==
  (op = "FlatMap" /\ IsSome(recv)) =>
    /\ calls = <<[v |-> recv.v, fn |-> "fn"]>>
    /\ esc = NoPanic
    /\ out.kind = "maybe"
    /\ (arg.k = "const" => out.c = arg.c)
    /\ (arg.k = "justinc" => out.c = [v |-> (recv.v + 1) % (MaxVal + 1), tag |-> "Some"])
    /\ ((arg.k = "panic" /\ arg.p.t = "error") => out.c = [e |-> arg.p.e, tag |-> "Failure"])
    /\ ((arg.k = "panic" /\ arg.p.t = "string") =>
          out.c.tag = "Failure" /\ out.c.e.msg = arg.p.s)
    /\ (out.c.tag = "Failure" =>
          arg.k = "panic" \/ (arg.k = "const" /\ arg.c.tag = "Failure"))

C13_Witness ==
  /\ op = "FlatMap" /\ recv = Just(1) /\ arg = [k |-> "const", c |-> Empty]
  /\ out = OutMaybe(Empty) /\ calls = <<CallVal("fn", 1)>>

\* what a callback of a pipeline computes from x
ChainFn(fn, x) == CASE fn.k = "double" -> x * 2 [] fn.k = "add5" -> x + 5

\* C14: for every value v and every f that returns, Present(v).Map(f) calls
\* f once with v and is Present(f(v)); and the pipeline
\* Present(s).Map(x * 2).Filter(x > 15).Map(x + 5) ends in Present(2 * s + 5)
\* when 2 * s > 15 (Present(25) from Present(10)) and in Absent otherwise.
C14_MapAndChain ==
  /\ (op = "Map" /\ IsSome(recv)) =>
        /\ calls = <<[v |-> recv.v, fn |-> "fn"]>>
        /\ esc = NoPanic
        /\ out = [c |-> [v |-> ChainFn(arg, recv.v), tag |-> "Some"], kind |-> "maybe"]
  /\ (/\ Len(chain) = 4
      /\ <<chain[2].k, chain[3].k, chain[4].k>> = <<"double", "gt15", "add5">>) =>
        /\ (chain[1].v * 2 > 15 => m = [v |-> chain[1].v * 2 + 5, tag |-> "Some"])
        /\ (chain[1].v * 2 <= 15 => m = [tag |-> "None"])
        /\ (chain[1].v = 10 => m = [v |-> 25, tag |-> "Some"])

C14_Witness ==
  /\ chain = <<[k |-> "value", v |-> 10], [k |-> "double"], [k |-> "gt15"], [k |-> "add5"]>>
  /\ op = "Map" /\ recv = Just(20) /\ m = Just(25) /\ calls = <<CallVal("fn", 20)>>

\* C15: Present(v).Then(f) calls f exactly once, with v, and when f returns
\* it returns Present(v), the held value unchanged.
C15_ThenKeepsValue ==
  (op = "Then" /\ IsSome(recv)) =>
    /\ calls = <<[v |-> recv.v, fn |-> "fn"]>>
    /\ esc = NoPanic
    /\ (arg.k = "return" => out = [c |-> recv, kind |-> "maybe"] /\ m = recv)

C15_Witness ==
  /\ op = "Then" /\ recv = Just(2) /\ arg.k = "return"
  /\ out = OutMaybe(Just(2)) /\ calls = <<CallVal("fn", 2)>>

\* C16: on Present(v), OrElseDefault and OrElseGet return v, MapIfEmpty and
\* MapIfFailed return Present(v), and none of them calls the callback
\* supplied, also when it would panic.
C16_PresentShortCircuits ==
  IsSome(recv) =>
    /\ (op \in {"OrElseDefault", "OrElseGet"} =>
          out = [v |-> recv.v, kind |-> "value"] /\ calls = <<>> /\ esc = NoPanic)
    /\ (op \in {"MapIfEmpty", "MapIfFailed"} =>
          out = [c |-> recv, kind |-> "maybe"] /\ calls = <<>> /\ esc = NoPanic)

C16_Witness ==
  /\ op = "OrElseGet" /\ recv = Just(1) /\ arg.k = "panic"
  /\ out = OutValue(1) /\ calls = <<>> /\ esc = NoPanic

\* C17: MatchThen makes exactly one call: onPresent with the held value on
\* Present, onAbsent on Absent, onFailed with the held error on Failed; the
\* other two callbacks are not called, and when the callback called returns
\* normally the result is the original container.
C17_MatchThenDispatch ==
  (op = "MatchThen" /\ recv.tag \in {"Some", "None", "Failure"}) =>
    /\ Len(calls) = 1
    /\ esc = NoPanic
    /\ (IsSome(recv) => calls[1] = [v |-> recv.v, fn |-> "someFn"])
    /\ (IsNone(recv) => calls[1] = [fn |-> "noneFn"])
    /\ (IsFailure(recv) => calls[1] = [e |-> recv.e, fn |-> "failureFn"])
    /\ (arg[calls[1].fn].k = "return" => out = [c |-> recv, kind |-> "maybe"])

C17_Witness ==
  /\ op = "MatchThen" /\ recv = Just(1) /\ arg.someFn.k = "return"
  /\ arg.noneFn.k = "panic" /\ arg.failureFn.k = "panic"
  /\ out = OutMaybe(Just(1)) /\ calls = <<CallVal("someFn", 1)>>

C21_ToMaybe ==
  (op = "ToMaybe") =>
    /\ calls = <<>> /\ esc = NoPanic /\ out.kind = "maybe"
    /\ (arg.err # NilErr => out.c = [e |-> arg.err, tag |-> "Failure"])
    /\ (arg.err = NilErr => out.c = [v |-> arg.v, tag |-> "Some"])
    /\ out.c.tag # "None"

C21_Witness ==
  /\ op = "ToMaybe" /\ arg = [k |-> "pair", v |-> 0, err |-> NilErr]
  /\ out = OutMaybe(Just(0))

Triple(c) ==
  CASE c.tag = "Some" -> [v |-> c.v, kind |-> "triple", ok |-> TRUE, err |-> NilErr]
    [] c.tag = "None" -> [v |-> 0, kind |-> "triple", ok |-> FALSE, err |-> NilErr]
    [] c.tag = "Failure" -> [v |-> 0, kind |-> "triple", ok |-> FALSE, err |-> c.e]

C24_LazyEagerAgree ==
  LET expected == IF IsNone(recv) THEN [e |-> arg.err, tag |-> "Failure"] ELSE recv IN
  (recv.tag \in {"Some", "None", "Failure"}) =>
    /\ ((op = "FailIfEmpty" /\ arg.k = "err") =>
          /\ out = MaybeFailIfEmptyEager(recv, arg.err).out
          /\ out = [c |-> expected, kind |-> "maybe"]
          /\ esc = NoPanic
          /\ (~IsNone(recv) => calls = <<>>))
    /\ (op = "FailIfEmptyErr" =>
          /\ out = MaybeFailIfEmpty(recv, arg).out
          /\ out = [c |-> expected, kind |-> "maybe"]
          /\ esc = NoPanic /\ calls = <<>>)

C24_Witness ==
  /\ op = "FailIfEmptyErr" /\ IsNone(recv) /\ arg.err = NilErr
  /\ out = OutMaybe(Failed(NilErr))
  /\ MaybeFailIfEmpty(recv, arg).out = out

\* C25: in a chain of MapIfFailed calls, each applied to the result of the
\* call before, a callback is called exactly when the container it is applied
\* to is Failed, and then with the error held: the first callback of a chain
\* from Failed(e) receives e, a callback after one that returned (_, e2)
\* receives e2, and after a callback that returned (v, nil), as on a Present
\* or Absent start, no further callback is called and the container stays.
C25_RetryOrder ==
  [][(op' = "MapIfFailed" /\ m.tag \in {"Some", "None", "Failure"}) =>
       /\ (IsFailure(m) => calls' = <<[e |-> m.e, fn |-> "fn"]>>)
       /\ (~IsFailure(m) => calls' = <<>> /\ m' = m)
       /\ ((op = "MapIfFailed" /\ calls # <<>> /\ arg.k = "pair") =>
             IF arg.err # NilErr
             THEN calls' = <<[e |-> arg.err, fn |-> "fn"]>>
             ELSE calls' = <<>> /\ m' = [v |-> arg.v, tag |-> "Some"])]_vars

C25_Witness ==
  /\ op = "MapIfFailed" /\ recv = Failed(CallerErr(1))
  /\ arg = [k |-> "pair", v |-> 0, err |-> CallerErr(2)]
  /\ calls = <<CallErr("fn", CallerErr(1))>> /\ m = Failed(CallerErr(2))

\* C26: helper Map and helper FlatMap, given an implementation of the
\* interface that is none of Some, None and Failure and whose MatchThen calls
\* none of the three functions, return an Absent container and do not call
\* the transformation function.
C26_UnknownImplementation ==
  (op \in {"maybe.Map", "maybe.FlatMap"} /\ recv.tag = "custom") =>
    /\ out = [c |-> [tag |-> "None"], kind |-> "maybe"]
    /\ calls = <<>>
    /\ esc = NoPanic

\* the operations that return a container
ContainerOps == {"Do", "Try", "ToMaybe", "Map", "FlatMap", "Filter", "Then", "MatchThen",
                 "MapIfEmpty", "MapIfFailed", "FailIfEmpty", "maybe.Map", "maybe.FlatMap"}

\* C27: every container-returning operation, applied to a Present, Absent or
\* Failed container (or to none, for Do, Try and ToMaybe), returns a container
\* that is Present, Absent or Failed, never a nil container, whatever the
\* callback does.
C27_ClosedSum ==
  (op \in ContainerOps /\ recv.tag \in {"Some", "None", "Failure", "-"}) =>
    /\ esc = NoPanic
    /\ out.kind = "maybe"
    /\ out.c.tag \in {"Some", "None", "Failure"}

\* C28 (as claimed): the triple of Get tells the state: the flag is true
\* exactly on Present and the error is non-nil exactly on Failed, so Absent
\* and Failed never give the same triple.
C28_Original ==
  (op = "Get" /\ recv.tag \in {"Some", "None", "Failure"}) =>
    /\ (out.ok <=> IsSome(recv))
    /\ ((out.err # NilErr) <=> IsFailure(recv))

\* C28 (amended): the flag is true exactly on Present; a non-nil error means
\* Failed, and Failed(e) gives the error e it holds; the triple
\* (zero, false, nil) is given by Absent and also by a Failed container that
\* holds a nil error, which the triple therefore does not tell apart.
C28_TripleAndState ==
  (op = "Get" /\ recv.tag \in {"Some", "None", "Failure"}) =>
    /\ (out.ok <=> IsSome(recv))
    /\ (out.err # NilErr => IsFailure(recv))
    /\ (IsFailure(recv) => out.err = recv.e)
    /\ (out = [v |-> 0, kind |-> "triple", ok |-> FALSE, err |-> NilErr] <=>
          (IsNone(recv) \/ recv = [e |-> NilErr, tag |-> "Failure"]))

C28_Witness ==
  /\ op = "Get" /\ recv = Failed(NilErr)
  /\ out = OutTriple(0, FALSE, NilErr) /\ out = Triple(Empty)

SameContainer(a, b) ==
  /\ a.tag = b.tag
  /\ (a.tag = "Some" => a.v = b.v)
  /\ (a.tag = "Failure" =>
        IF a.e.id > MaxErr \/ b.e.id > MaxErr THEN a.e.msg = b.e.msg ELSE a.e = b.e)
SameResult(r) ==
  /\ r.esc = esc /\ r.calls = calls
  /\ r.out.kind = out.kind
  /\ SameContainer(r.out.c, out.c)

\* C30: with the result type equal to the input type, helper Map(m, f) gives
\* the state and payload m.Map(f) gives, and helper FlatMap(m, g) those
\* m.FlatMap(g) gives, with the same calls of the callback, for Present,
\* Absent and Failed m and for callbacks that return or panic.
C30_HelpersAgreeWithMethods ==
  (recv.tag \in {"Some", "None", "Failure"}) =>
    /\ (op = "maybe.Map" => SameResult(MaybeMap(recv, arg)))
    /\ (op = "Map" => SameResult(Map(recv, arg)))
    /\ (op = "maybe.FlatMap" => SameResult(MaybeFlatMap(recv, arg)))
    /\ (op = "FlatMap" => SameResult(FlatMap(recv, arg)))

C30_Witness ==
  /\ op = "maybe.Map" /\ recv = Just(1) /\ arg.k = "panic" /\ arg.p.t = "string"
  /\ IsFailure(out.c) /\ out.c.e.msg = "boom"
  /\ IsFailure(MaybeMap(recv, arg).out.c)

====
